---- MODULE Spec2Model ----
(***************************************************************************)
(* Hybrid retrieval and rank fusion of clashgpt's knowledge-base search    *)
(* (app/tools/rag_tool.py): the two search branches, the gather in         *)
(* _hybrid_search, _reciprocal_rank_fusion, and search_knowledge_base.     *)
(*                                                                         *)
(* Scores.  The code computes 1.0 / (k + rank) in floating point and adds  *)
(* at most one such term per branch and chunk.  The model keeps a score as *)
(* an exact rational with the fixed denominator RRFScale (the least common *)
(* multiple of k .. k + MaxHits - 1): the integer n stands for n/RRFScale. *)
(* Within the bounds, distinct rationals of this form differ by far more   *)
(* than a float's rounding error and equal ones are sums of the same       *)
(* terms, so order and ties agree with the float computation.              *)
(***************************************************************************)
EXTENDS Integers, Sequences, FiniteSets, TLC

\* ---------------------------------------------------------------- bounds
\* The most hits an index backend yields for one query.
MaxHits == 3
\* The largest in-range match_count a caller passes (the out-of-range ones
\* 0 and max_match_count + 1 are passed as well).
MaxMatchCount == 4
\* get_mongodb calls followed in the specification of the singleton.
MaxCalls == 5

\* ------------------------------------------------------ program constants
RRF_K == 60
numCandidates == 100
max_match_count == 50

\* ------------------------------------------------------------- the corpus
\* Chunk ids (the _id of the chunks collection: unique per chunk).
Chunks == {"A", "B", "C", "D"}

\* Revisions of the collections a query may read: what is re-ingested
\* between the two branch queries is seen in two revisions.
Revisions == {1, 2}

\* The parent document of a chunk ($lookup on document_id).
DocumentOf(c) == IF c \in {"A", "B"} THEN "d1" ELSE IF c = "C" THEN "d2" ELSE "d3"
\* Title and source label of a document as of a revision of the collections;
\* document d2 carries no source label.
DocumentTitle(d, rev) ==
    IF rev = 1
    THEN (IF d = "d1" THEN "Chests" ELSE IF d = "d2" THEN "Gems" ELSE "Cards")
    ELSE (IF d = "d1" THEN "Chests (updated)" ELSE IF d = "d2" THEN "Gems (updated)"
          ELSE "Cards (updated)")
DocumentSource(d, rev) ==
    IF d = "d2" THEN ""
    ELSE IF rev = 1 THEN (IF d = "d1" THEN "wiki/chests" ELSE "wiki/cards")
    ELSE (IF d = "d1" THEN "blog/chests" ELSE "blog/cards")


\* ------------------------------------------------------------ arithmetic
Min(a, b) == IF a < b THEN a ELSE b
Max(a, b) == IF a > b THEN a ELSE b

RECURSIVE GCD(_, _)
GCD(a, b) == IF b = 0 THEN a ELSE GCD(b, a % b)

RECURSIVE LCMRange(_, _)
LCMRange(lo, hi) ==
    IF lo > hi THEN 1
    ELSE LET r == LCMRange(lo + 1, hi) IN (r \div GCD(r, lo)) * lo

\* The common denominator of every score of the model.
RRFScale == LCMRange(RRF_K, RRF_K + MaxHits - 1)

\* The rational n/d, for d a divisor of RRFScale.
Frac(n, d) == n * (RRFScale \div d)

\* ---------------------------------------------------------- SearchResult
SearchResult(chunk_id, document_id, content, similarity, metadata, document_title, document_source) ==
    [chunk_id |-> chunk_id, document_id |-> document_id, content |-> content,
     similarity |-> similarity, metadata |-> metadata,
     document_title |-> document_title, document_source |-> document_source]

\* The document the aggregation pipeline projects for chunk c read at
\* revision rev, returned at position j (1-based) of a branch's cursor; the
\* branch-native score falls with the position (0.9, 0.8, ...).
ProjectedDoc(c, rev, j) ==
    [chunk_id |-> c, document_id |-> DocumentOf(c),
     content |-> <<c, rev>>,
     similarity |-> Frac(10 - j, 10),
     metadata |-> [revision |-> rev],
     document_title |-> DocumentTitle(DocumentOf(c), rev),
     document_source |-> DocumentSource(DocumentOf(c), rev)]

\* "Convert to SearchResult objects".
ToSearchResults(docs) ==
    [i \in 1..Len(docs) |->
        SearchResult(docs[i].chunk_id, docs[i].document_id, docs[i].content,
                     docs[i].similarity, docs[i].metadata,
                     docs[i].document_title, docs[i].document_source)]

\* Python's seq[:n].
Slice(s, n) == SubSeq(s, 1, Min(Len(s), n))

\* Sequences over S of length at most n.
RECURSIVE SeqsUpTo(_, _)
SeqsUpTo(S, n) ==
    IF n = 0 THEN {<<>>}
    ELSE LET shorter == SeqsUpTo(S, n - 1)
         IN shorter \cup {Append(s, x) : s \in {t \in shorter : Len(t) = n - 1}, x \in S}

NoRepeat(ids) == \A i, j \in 1..Len(ids) : i # j => ids[i] # ids[j]

\* ------------------------------------------------- reciprocal rank fusion
\* Mutant of rrf_contribution: ranks counted from one.
rrf_contribution_one_based(k, rank) == Frac(1, k + rank + 1)

\* "Calculate RRF contribution: 1 / (k + rank)".
rrf_contribution(k, rank) == Frac(1, k + rank)

\* The empty dicts rrf_scores and chunk_map; keys is their insertion order.
EmptyDicts == [keys |-> <<>>, rrf_scores |-> <<>>, chunk_map |-> <<>>]

\* Position of chunk_id in the insertion order (0 when absent).
KeyIndex(keys, chunk_id) ==
    IF \E i \in 1..Len(keys) : keys[i] = chunk_id
    THEN CHOOSE i \in 1..Len(keys) : keys[i] = chunk_id
    ELSE 0

\* Mutant of accumulate: a repeated chunk's score is assigned, not added.
accumulate_no_sum(d, result, rank, k) ==
    LET at == KeyIndex(d.keys, result.chunk_id)
    IN IF at # 0
       THEN [d EXCEPT !.rrf_scores[at] = rrf_contribution(k, rank)]
       ELSE [keys |-> Append(d.keys, result.chunk_id),
             rrf_scores |-> Append(d.rrf_scores, rrf_contribution(k, rank)),
             chunk_map |-> Append(d.chunk_map, result)]

\* Mutant of accumulate: chunk_map is written for a repeated chunk too.
accumulate_overwrite(d, result, rank, k) ==
    LET at == KeyIndex(d.keys, result.chunk_id)
    IN IF at # 0
       THEN [d EXCEPT !.rrf_scores[at] = @ + rrf_contribution(k, rank),
                      !.chunk_map[at] = result]
       ELSE [keys |-> Append(d.keys, result.chunk_id),
             rrf_scores |-> Append(d.rrf_scores, rrf_contribution(k, rank)),
             chunk_map |-> Append(d.chunk_map, result)]

\* Mutant of accumulate: the dicts are keyed by document_id.
accumulate_by_document(d, result, rank, k) ==
    LET at == KeyIndex(d.keys, result.document_id)
    IN IF at # 0
       THEN [d EXCEPT !.rrf_scores[at] = @ + rrf_contribution(k, rank)]
       ELSE [keys |-> Append(d.keys, result.document_id),
             rrf_scores |-> Append(d.rrf_scores, rrf_contribution(k, rank)),
             chunk_map |-> Append(d.chunk_map, result)]

\* The body of the inner loop: accumulate one result at zero-based rank.
accumulate(d, result, rank, k) ==
    LET chunk_id == result.chunk_id
        rrf_score == rrf_contribution(k, rank)
        at == KeyIndex(d.keys, chunk_id)
    IN IF at # 0
       THEN [d EXCEPT !.rrf_scores[at] = @ + rrf_score]
       ELSE [keys |-> Append(d.keys, chunk_id),
             rrf_scores |-> Append(d.rrf_scores, rrf_score),
             chunk_map |-> Append(d.chunk_map, result)]

\* for rank, result in enumerate(results)
RECURSIVE scan_results(_, _, _, _)
scan_results(d, results, rank, k) ==
    IF rank >= Len(results) THEN d
    ELSE scan_results(accumulate(d, results[rank + 1], rank, k), results, rank + 1, k)

\* for results in search_results_list
RECURSIVE scan_lists(_, _, _, _)
scan_lists(d, search_results_list, n, k) ==
    IF n > Len(search_results_list) THEN d
    ELSE scan_lists(scan_results(d, search_results_list[n], 0, k),
                    search_results_list, n + 1, k)

\* Mutant of InsertAt: an item goes before the items of equal score.
InsertAt_before_ties(sorted, scores, s) ==
    Cardinality({i \in 1..Len(sorted) : scores[sorted[i]] > s})

\* Where a stable descending sort puts an item of score s into the sorted
\* prefix: after every item whose score is at least s.
InsertAt(sorted, scores, s) ==
    Cardinality({i \in 1..Len(sorted) : scores[sorted[i]] >= s})

\* Mutant of sorted_items: the items are left in insertion order.
sorted_items_unsorted(scores, n) == [i \in 1..n |-> i]

\* sorted(rrf_scores.items(), key=lambda x: x[1], reverse=True): the indices
\* of the dict's items, stably sorted by descending score.
RECURSIVE sorted_items(_, _)
sorted_items(scores, n) ==
    IF n = 0 THEN <<>>
    ELSE LET prefix == sorted_items(scores, n - 1)
             at == InsertAt(prefix, scores, scores[n])
         IN SubSeq(prefix, 1, at) \o <<n>> \o SubSeq(prefix, at + 1, Len(prefix))

\* Mutant of merged_result: the source label is not copied.
merged_result_drops_source(result, rrf_score) ==
    SearchResult(result.chunk_id, result.document_id, result.content,
                 rrf_score, result.metadata, result.document_title, "")

\* "Create new result with updated similarity (RRF score)".
merged_result(result, rrf_score) ==
    SearchResult(result.chunk_id, result.document_id, result.content,
                 rrf_score, result.metadata,
                 result.document_title, result.document_source)

reciprocal_rank_fusion(search_results_list, k) ==
    LET d == scan_lists(EmptyDicts, search_results_list, 1, k)
        sorted_chunks == sorted_items(d.rrf_scores, Len(d.keys))
    IN [i \in 1..Len(sorted_chunks) |->
           merged_result(d.chunk_map[sorted_chunks[i]], d.rrf_scores[sorted_chunks[i]])]

\* ------------------------------------------------------------------ state
VARIABLES
    query,              \* search_knowledge_base's argument, a sequence of characters
    match_count,        \* its match_count (reassigned by the clamp)
    search_type,        \* its search_type
    pc,                 \* search_knowledge_base: "start", "searching", "done", "cancelled"
    results,            \* its local results
    response,           \* what it returned
    hpc,                \* _hybrid_search: "idle", "gathering", "collected", "fused", "truncated", "returned", "cancelled"
    fetch_count,        \* _hybrid_search's fetch_count
    branch,             \* the two branch coroutines
    semantic_list,      \* _hybrid_search's locals
    text_list,
    merged_results,
    final_results,
    mongodb_service,    \* the module global _mongodb_service
    embedding_service,  \* the module global _embedding_service
    hybrid_result,      \* what _hybrid_search returned
    search_results_list, \* the argument of a direct call of _reciprocal_rank_fusion
    requested,          \* match_count as the caller passed it: its value and its type
    calls,              \* how often each branch body and each collaborator was entered
    cancel_requested,   \* the task awaiting search_knowledge_base was cancelled
    constructed,        \* how many MongoDBService objects have been constructed
    handle              \* what get_mongodb() returned to each of its callers

vars == <<query, match_count, search_type, pc, results, response, hpc, fetch_count,
          branch, semantic_list, text_list, merged_results, final_results,
          mongodb_service, embedding_service, hybrid_result, search_results_list,
          constructed, handle, requested, calls, cancel_requested>>

\* ------------------------------------------------------------- exceptions
EmbeddingErrors ==
    {"EmbeddingAuthError", "EmbeddingRateLimitError", "EmbeddingTimeoutError",
     "EmbeddingNetworkError", "EmbeddingAPIError", "EmbeddingDataError",
     "EmbeddingServiceError"}
MongoErrors == {"MongoDBConnectionError", "MongoDBServiceError"}
\* What an aggregate call or a cursor read raises: pymongo's OperationFailure,
\* or any other error ("Exception": a network error, a missing field).
IndexErrors == {"OperationFailure", "Exception"}

\* Mutant of IsException: CancelledError derives from Exception.
IsException_all(e) == TRUE

\* isinstance(e, Exception): everything but the BaseException-only kinds.
IsException(e) == e # "CancelledError"

\* Mutant of semantic_search_except: the final "except Exception" is missing.
semantic_search_except_named_only(e) ==
    IF e \in {"EmbeddingAuthError", "EmbeddingRateLimitError", "EmbeddingTimeoutError",
              "EmbeddingNetworkError", "EmbeddingAPIError", "EmbeddingDataError",
              "OperationFailure"} \cup MongoErrors
    THEN "return_empty"
    ELSE "propagate"

\* The except clauses of _semantic_search, first match wins.
semantic_search_except(e) ==
    IF e \in {"EmbeddingAuthError", "EmbeddingRateLimitError", "EmbeddingTimeoutError"}
    THEN "return_empty"
    ELSE IF e \in {"EmbeddingNetworkError", "EmbeddingAPIError", "EmbeddingDataError"}
    THEN "return_empty"
    ELSE IF e \in MongoErrors THEN "return_empty"
    ELSE IF e = "OperationFailure" THEN "return_empty"
    ELSE IF IsException(e) THEN "return_empty"
    ELSE "propagate"

\* Mutant of text_search_except: the final "except Exception" is missing.
text_search_except_named_only(e) ==
    IF e \in MongoErrors THEN "return_empty"
    ELSE IF e = "OperationFailure" THEN "return_empty"
    ELSE "propagate"

\* The except clauses of _text_search.
text_search_except(e) ==
    IF e \in MongoErrors THEN "return_empty"
    ELSE IF e = "OperationFailure" THEN "return_empty"
    ELSE IF IsException(e) THEN "return_empty"
    ELSE "propagate"

\* A branch coroutine after exception e was raised inside its try block.
AfterRaise(br, disposition, e) ==
    IF disposition = "return_empty"
    THEN [br EXCEPT !.pc = "returned", !.exc = e, !.out = <<>>]
    ELSE [br EXCEPT !.pc = "raised", !.exc = e]

\* The MongoDBService objects, in the order of their construction.
MongoInstances ==
    <<"MongoDBService", "MongoDBService_2", "MongoDBService_3", "MongoDBService_4",
      "MongoDBService_5", "MongoDBService_6", "MongoDBService_7", "MongoDBService_8">>

\* Mutant of get_mongodb: the "is None" test is missing.
get_mongodb_always_constructs(service) ==
    {[service |-> MongoInstances[constructed + 1], exc |-> "none",
      constructed |-> constructed + 1],
     [service |-> service, exc |-> "MongoDBConnectionError", constructed |-> constructed]}

\* get_mongodb(): the singleton, constructed on first use; the constructor
\* raises MongoDBConnectionError and then leaves the global unset.
get_mongodb(service) ==
    IF service = "None"
    THEN {[service |-> MongoInstances[constructed + 1], exc |-> "none",
           constructed |-> constructed + 1],
          [service |-> "None", exc |-> "MongoDBConnectionError",
           constructed |-> constructed]}
    ELSE {[service |-> service, exc |-> "none", constructed |-> constructed]}

\* get_embedding_service(): likewise; its constructor raises
\* EmbeddingAuthError or EmbeddingServiceError.
get_embedding_service(service) ==
    IF service = "None"
    THEN {[service |-> "EmbeddingService", exc |-> "none"],
          [service |-> "None", exc |-> "EmbeddingAuthError"],
          [service |-> "None", exc |-> "EmbeddingServiceError"]}
    ELSE {[service |-> service, exc |-> "none"]}

\* -------------------------------------------------------- index backends
\* What an index yields for a query limited to limit hits: any ranking of
\* distinct chunks, at most limit and at most MaxHits long, read at one
\* revision of the collection.
IndexReplies(limit) ==
    {[j \in 1..Len(ids) |-> ProjectedDoc(ids[j], rev, j)] :
        ids \in {s \in SeqsUpTo(Chunks, Min(limit, MaxHits)) : NoRepeat(s)},
        rev \in Revisions}

\* "limit": match_count of the $vectorSearch stage.
vector_limit(n) == n
\* The $vectorSearch stage _semantic_search builds for match_count n.
vector_search_stage(n) == [numCandidates |-> numCandidates, limit |-> vector_limit(n)]
\* {"$limit": match_count * 2} of the text pipeline.
text_limit(n) == n * 2

\* [doc async for doc in cursor][:match_count]
semantic_collect(docs, n) == ToSearchResults(Slice(docs, n))
\* [doc async for doc in cursor][:match_count * 2]
text_collect(docs, n) == ToSearchResults(Slice(docs, n * 2))

\* --------------------------------------------------------------- branches
Branches == {"semantic", "text"}
IdleBranch == [pc |-> "idle", match_count |-> 0, exc |-> "none", out |-> <<>>]
ReadyBranch(n) == [pc |-> "ready", match_count |-> n, exc |-> "none", out |-> <<>>]
\* Mutant of Terminal: only a branch that succeeded counts as done.
Terminal_success_only(br) == br.pc = "returned" /\ br.exc = "none"
Terminal(br) == br.pc \in {"returned", "raised"}
\* A branch that is scheduled or suspended at one of its awaits.
InFlight(br) == br.pc \in {"ready", "embedding", "aggregating", "draining"}
\* No branch body and no collaborator has been entered yet.
NoCalls ==
    [semantic |-> 0, text |-> 0, get_mongodb |-> 0, get_embedding_service |-> 0,
     generate_embedding |-> 0, aggregate |-> 0]

\* _semantic_search up to its first await: get_mongodb(),
\* get_embedding_service(), and the call of generate_embedding.
SemanticStart ==
    /\ branch["semantic"].pc = "ready"
    /\ \E m \in get_mongodb(mongodb_service) :
        /\ mongodb_service' = m.service
        /\ constructed' = m.constructed
        /\ IF m.exc # "none"
           THEN /\ branch' = [branch EXCEPT !["semantic"] =
                                AfterRaise(@, semantic_search_except(m.exc), m.exc)]
                /\ calls' = [calls EXCEPT !.semantic = @ + 1, !.get_mongodb = @ + 1]
                /\ UNCHANGED embedding_service
           ELSE \E s \in get_embedding_service(embedding_service) :
                /\ embedding_service' = s.service
                /\ branch' = [branch EXCEPT !["semantic"] =
                                IF s.exc # "none"
                                THEN AfterRaise(@, semantic_search_except(s.exc), s.exc)
                                ELSE [@ EXCEPT !.pc = "embedding"]]
                /\ calls' = [calls EXCEPT
                                !.semantic = @ + 1,
                                !.get_mongodb = @ + 1,
                                !.get_embedding_service = @ + 1,
                                !.generate_embedding = IF s.exc = "none" THEN @ + 1 ELSE @]
    /\ UNCHANGED <<query, match_count, search_type, pc, results, response, hpc,
                   fetch_count, semantic_list, text_list, merged_results,
                   final_results, hybrid_result, search_results_list, handle, requested,
                   cancel_requested>>

\* await embedding_service.generate_embedding(query) completes or raises;
\* on success the pipeline is built and aggregate is called.
SemanticEmbedded ==
    /\ branch["semantic"].pc = "embedding"
    /\ \E e \in {"none"} \cup EmbeddingErrors :
        /\ branch' = [branch EXCEPT !["semantic"] =
                         IF e # "none"
                         THEN AfterRaise(@, semantic_search_except(e), e)
                         ELSE [@ EXCEPT !.pc = "aggregating"]]
        /\ calls' = [calls EXCEPT !.aggregate = IF e = "none" THEN @ + 1 ELSE @]
    /\ UNCHANGED <<query, match_count, search_type, pc, results, response, hpc,
                   fetch_count, semantic_list, text_list, merged_results,
                   final_results, mongodb_service, embedding_service,
                   hybrid_result, search_results_list, constructed, handle, requested,
                   cancel_requested>>

\* await collection.aggregate(pipeline) yields the cursor or raises.
SemanticAggregated ==
    /\ branch["semantic"].pc = "aggregating"
    /\ \E e \in {"none"} \cup IndexErrors :
        branch' = [branch EXCEPT !["semantic"] =
                      IF e # "none"
                      THEN AfterRaise(@, semantic_search_except(e), e)
                      ELSE [@ EXCEPT !.pc = "draining"]]
    /\ UNCHANGED <<query, match_count, search_type, pc, results, response, hpc,
                   fetch_count, semantic_list, text_list, merged_results,
                   final_results, mongodb_service, embedding_service,
                   hybrid_result, search_results_list, constructed, handle, requested, calls,
                   cancel_requested>>

\* The cursor is drained, cut, converted and returned, or a read raises.
SemanticDrained ==
    /\ branch["semantic"].pc = "draining"
    /\ \/ \E e \in IndexErrors :
            branch' = [branch EXCEPT !["semantic"] =
                          AfterRaise(@, semantic_search_except(e), e)]
       \/ \E docs \in IndexReplies(vector_limit(branch["semantic"].match_count)) :
            branch' = [branch EXCEPT !["semantic"] =
                          [@ EXCEPT !.pc = "returned",
                                    !.out = semantic_collect(docs, branch["semantic"].match_count)]]
    /\ UNCHANGED <<query, match_count, search_type, pc, results, response, hpc,
                   fetch_count, semantic_list, text_list, merged_results,
                   final_results, mongodb_service, embedding_service,
                   hybrid_result, search_results_list, constructed, handle, requested, calls,
                   cancel_requested>>

\* _text_search up to its first await: get_mongodb() and the call of
\* aggregate.  Under gather the text task is started after the semantic
\* task has run to its first await (tasks start in creation order).
TextStart ==
    /\ branch["text"].pc = "ready"
    /\ branch["semantic"].pc # "ready"
    /\ \E m \in get_mongodb(mongodb_service) :
        /\ mongodb_service' = m.service
        /\ constructed' = m.constructed
        /\ branch' = [branch EXCEPT !["text"] =
                        IF m.exc # "none"
                        THEN AfterRaise(@, text_search_except(m.exc), m.exc)
                        ELSE [@ EXCEPT !.pc = "aggregating"]]
        /\ calls' = [calls EXCEPT
                        !.text = @ + 1,
                        !.get_mongodb = @ + 1,
                        !.aggregate = IF m.exc = "none" THEN @ + 1 ELSE @]
    /\ UNCHANGED <<query, match_count, search_type, pc, results, response, hpc,
                   fetch_count, semantic_list, text_list, merged_results,
                   final_results, embedding_service, hybrid_result,
                   search_results_list, handle, requested,
                   cancel_requested>>

TextAggregated ==
    /\ branch["text"].pc = "aggregating"
    /\ \E e \in {"none"} \cup IndexErrors :
        branch' = [branch EXCEPT !["text"] =
                      IF e # "none"
                      THEN AfterRaise(@, text_search_except(e), e)
                      ELSE [@ EXCEPT !.pc = "draining"]]
    /\ UNCHANGED <<query, match_count, search_type, pc, results, response, hpc,
                   fetch_count, semantic_list, text_list, merged_results,
                   final_results, mongodb_service, embedding_service,
                   hybrid_result, search_results_list, constructed, handle, requested, calls,
                   cancel_requested>>

TextDrained ==
    /\ branch["text"].pc = "draining"
    /\ \/ \E e \in IndexErrors :
            branch' = [branch EXCEPT !["text"] =
                          AfterRaise(@, text_search_except(e), e)]
       \/ \E docs \in IndexReplies(text_limit(branch["text"].match_count)) :
            branch' = [branch EXCEPT !["text"] =
                          [@ EXCEPT !.pc = "returned",
                                    !.out = text_collect(docs, branch["text"].match_count)]]
    /\ UNCHANGED <<query, match_count, search_type, pc, results, response, hpc,
                   fetch_count, semantic_list, text_list, merged_results,
                   final_results, mongodb_service, embedding_service,
                   hybrid_result, search_results_list, constructed, handle, requested, calls,
                   cancel_requested>>

\* --------------------------------------------------------- _hybrid_search
\* One entry of gather's results_tuple under return_exceptions=True: the
\* list a branch returned, or the exception it raised.
gather_result(br) ==
    IF br.pc = "raised"
    THEN [is_exception |-> TRUE, list |-> <<>>, exc |-> br.exc]
    ELSE [is_exception |-> FALSE, list |-> br.out, exc |-> "none"]

\* "Handle errors gracefully": the list kept for one entry of the tuple.
list_of(r) == IF r.is_exception /\ IsException(r.exc) THEN <<>> ELSE r.list

\* Mutant of both_failed: "or" for "and" (a failed branch empties the result).
both_failed_either(s, t) == s = <<>> \/ t = <<>>

\* if not semantic_list and not text_list
both_failed(s, t) == s = <<>> /\ t = <<>>

\* Mutant of top_n: the slice is missing.
top_n_all(merged, n) == merged

\* "Return top N results": merged_results[:match_count].
top_n(merged, n) == Slice(merged, n)

\* The except clause of _hybrid_search.
hybrid_search_except(e) == IF IsException(e) THEN "return_empty" ELSE "propagate"

\* The except clauses of the branch b.
branch_except(b, e) ==
    IF b = "semantic" THEN semantic_search_except(e) ELSE text_search_except(e)

\* CancelledError thrown into a branch: at the await it is suspended at,
\* inside its try block; or, for a task of gather that has not run yet,
\* before its body is entered.
throw_cancelled(b, br) ==
    IF br.pc = "ready"
    THEN [br EXCEPT !.pc = "raised", !.exc = "CancelledError"]
    ELSE AfterRaise(br, branch_except(b, "CancelledError"), "CancelledError")

\* The task awaiting search_knowledge_base is cancelled while the search
\* awaits: a single branch at one of its awaits, or gather, which cancels
\* every child that is not done.
Cancel ==
    /\ pc = "searching"
    /\ ~cancel_requested
    /\ IF search_type = "hybrid"
       THEN hpc = "gathering"
       ELSE branch[search_type].pc \in {"embedding", "aggregating", "draining"}
    /\ cancel_requested' = TRUE
    /\ branch' = [b \in Branches |->
                    IF InFlight(branch[b]) THEN throw_cancelled(b, branch[b])
                    ELSE branch[b]]
    /\ UNCHANGED <<query, match_count, search_type, pc, results, response, hpc,
                   fetch_count, semantic_list, text_list, merged_results,
                   final_results, mongodb_service, embedding_service,
                   hybrid_result, search_results_list, constructed, handle, requested, calls>>

\* All children of a cancelled gather are done: gather raises
\* CancelledError into _hybrid_search, whose except clause sees it.
HybridCancelled ==
    /\ hpc = "gathering"
    /\ cancel_requested
    /\ \A b \in Branches : Terminal(branch[b])
    /\ IF hybrid_search_except("CancelledError") = "return_empty"
       THEN /\ hybrid_result' = <<>>
            /\ hpc' = "returned"
       ELSE /\ hpc' = "cancelled"
            /\ UNCHANGED hybrid_result
    /\ UNCHANGED <<query, match_count, search_type, pc, results, response,
                   fetch_count, branch, semantic_list, text_list, merged_results,
                   final_results, mongodb_service, embedding_service,
                   search_results_list, constructed, handle, requested, calls, cancel_requested>>

\* Mutant of HybridCollect: the wait ends with the first branch that is done.
HybridCollect_first_completed ==
    /\ hpc = "gathering"
    /\ ~cancel_requested
    /\ \E b \in Branches : Terminal(branch[b])
    /\ semantic_list' = list_of(gather_result(branch["semantic"]))
    /\ text_list' = list_of(gather_result(branch["text"]))
    /\ hpc' = "collected"
    /\ UNCHANGED <<query, match_count, search_type, pc, results, response,
                   fetch_count, branch, merged_results, final_results,
                   mongodb_service, embedding_service, hybrid_result,
                   search_results_list, constructed, handle, requested, calls, cancel_requested>>

\* gather has both results: the tuple is unpacked into the two lists.
HybridCollect ==
    /\ hpc = "gathering"
    /\ ~cancel_requested
    /\ \A b \in Branches : Terminal(branch[b])
    /\ semantic_list' = list_of(gather_result(branch["semantic"]))
    /\ text_list' = list_of(gather_result(branch["text"]))
    /\ hpc' = "collected"
    /\ UNCHANGED <<query, match_count, search_type, pc, results, response,
                   fetch_count, branch, merged_results, final_results,
                   mongodb_service, embedding_service, hybrid_result,
                   search_results_list, constructed, handle, requested, calls,
                   cancel_requested>>

\* Mutant of HybridReturnEmpty: total failure is raised, not returned.
HybridReturnEmpty_raises ==
    /\ hpc = "collected"
    /\ both_failed(semantic_list, text_list)
    /\ hpc' = "raised"
    /\ UNCHANGED <<query, match_count, search_type, pc, results, response,
                   fetch_count, branch, semantic_list, text_list, merged_results,
                   final_results, mongodb_service, embedding_service,
                   hybrid_result, search_results_list, constructed, handle, requested, calls,
                   cancel_requested>>

\* "If both failed, return empty".
HybridReturnEmpty ==
    /\ hpc = "collected"
    /\ both_failed(semantic_list, text_list)
    /\ hybrid_result' = <<>>
    /\ hpc' = "returned"
    /\ UNCHANGED <<query, match_count, search_type, pc, results, response,
                   fetch_count, branch, semantic_list, text_list, merged_results,
                   final_results, mongodb_service, embedding_service,
                   search_results_list, constructed, handle, requested, calls,
                   cancel_requested>>

\* Mutant of HybridFuse: the fused list is returned at once, uncut.
HybridFuse_returns ==
    /\ hpc = "collected"
    /\ ~both_failed(semantic_list, text_list)
    /\ merged_results' = reciprocal_rank_fusion(<<semantic_list, text_list>>, RRF_K)
    /\ hybrid_result' = merged_results'
    /\ hpc' = "returned"
    /\ UNCHANGED <<query, match_count, search_type, pc, results, response,
                   fetch_count, branch, semantic_list, text_list, final_results,
                   mongodb_service, embedding_service,
                   search_results_list, constructed, handle, requested, calls, cancel_requested>>

\* merged_results = _reciprocal_rank_fusion([semantic_list, text_list], k=60)
HybridFuse ==
    /\ hpc = "collected"
    /\ ~both_failed(semantic_list, text_list)
    /\ merged_results' = reciprocal_rank_fusion(<<semantic_list, text_list>>, RRF_K)
    /\ hpc' = "fused"
    /\ UNCHANGED <<query, match_count, search_type, pc, results, response,
                   fetch_count, branch, semantic_list, text_list, final_results,
                   mongodb_service, embedding_service, hybrid_result,
                   search_results_list, constructed, handle, requested, calls,
                   cancel_requested>>

\* final_results = merged_results[:match_count]
HybridTruncate ==
    /\ hpc = "fused"
    /\ final_results' = top_n(merged_results, match_count)
    /\ hpc' = "truncated"
    /\ UNCHANGED <<query, match_count, search_type, pc, results, response,
                   fetch_count, branch, semantic_list, text_list, merged_results,
                   mongodb_service, embedding_service, hybrid_result,
                   search_results_list, constructed, handle, requested, calls,
                   cancel_requested>>

\* return final_results
HybridReturn ==
    /\ hpc = "truncated"
    /\ hybrid_result' = final_results
    /\ hpc' = "returned"
    /\ UNCHANGED <<query, match_count, search_type, pc, results, response,
                   fetch_count, branch, semantic_list, text_list, merged_results,
                   final_results, mongodb_service, embedding_service,
                   search_results_list, constructed, handle, requested, calls,
                   cancel_requested>>

\* -------------------------------------------------- search_knowledge_base
Whitespace == {" "}

RECURSIVE lstrip(_)
lstrip(s) == IF s # <<>> /\ Head(s) \in Whitespace THEN lstrip(Tail(s)) ELSE s

RECURSIVE rstrip(_)
rstrip(s) ==
    IF s # <<>> /\ s[Len(s)] \in Whitespace THEN rstrip(SubSeq(s, 1, Len(s) - 1)) ELSE s

\* str.strip()
strip(s) == rstrip(lstrip(s))

SearchTypes == {"hybrid", "semantic", "text"}

\* Mutant of validate: the query is tested without strip().
validate_no_strip(q, cls, n, t) ==
    IF q = <<>> THEN "empty_query"
    ELSE IF cls # "int" \/ n <= 0 THEN "bad_match_count"
    ELSE IF t \notin SearchTypes THEN "bad_search_type"
    ELSE "ok"

\* The three checks before any search; "ok" when all pass.
validate(q, cls, n, t) ==
    IF strip(q) = <<>> THEN "empty_query"
    ELSE IF cls # "int" \/ n <= 0 THEN "bad_match_count"
    ELSE IF t \notin SearchTypes THEN "bad_search_type"
    ELSE "ok"

\* Mutant of clamp: the upper bound is missing.
clamp_no_upper(n) == Max(1, n)

\* match_count = min(max(1, match_count), settings.max_match_count)
clamp(n) == Min(Max(1, n), max_match_count)

\* f"{x:.2f}": the score in hundredths, rounded to the nearest.
two_decimals(similarity) ==
    LET unit == RRFScale \div 20 IN (10 * similarity + unit) \div (2 * unit)

\* Mutant of result_block: the source line is written unconditionally.
result_block_always_source(i, result) ==
    <<[line |-> "document", number |-> i, title |-> result.document_title,
       relevance |-> two_decimals(result.similarity), text |-> <<>>],
      [line |-> "content", number |-> i, title |-> "", relevance |-> 0,
       text |-> result.content],
      [line |-> "source", number |-> i, title |-> "", relevance |-> 0,
       text |-> result.document_source]>>

\* The lines response_parts gets for result number i.
result_block(i, result) ==
    <<[line |-> "document", number |-> i, title |-> result.document_title,
       relevance |-> two_decimals(result.similarity), text |-> <<>>],
      [line |-> "content", number |-> i, title |-> "", relevance |-> 0,
       text |-> result.content]>>
    \o (IF result.document_source # ""
        THEN <<[line |-> "source", number |-> i, title |-> "", relevance |-> 0,
                text |-> result.document_source]>>
        ELSE <<>>)

RECURSIVE result_blocks(_, _)
result_blocks(rs, i) ==
    IF i > Len(rs) THEN <<>> ELSE result_block(i, rs[i]) \o result_blocks(rs, i + 1)

\* Mutant of format_results: the "if not results" test is missing.
format_results_no_empty_test(rs) ==
    [kind |-> "transcript",
     parts |-> <<[line |-> "header", number |-> Len(rs), title |-> "",
                  relevance |-> 0, text |-> <<>>]>> \o result_blocks(rs, 1)]

\* "Format results as a string for the LLM".
format_results(rs) ==
    IF rs = <<>>
    THEN [kind |-> "no_results", parts |-> <<>>]
    ELSE [kind |-> "transcript",
          parts |-> <<[line |-> "header", number |-> Len(rs), title |-> "",
                       relevance |-> 0, text |-> <<>>]>> \o result_blocks(rs, 1)]

\* The except clauses of search_knowledge_base.
search_knowledge_base_except(e) ==
    IF e \in EmbeddingErrors \cup MongoErrors THEN "unavailable"
    ELSE IF IsException(e) THEN "failed"
    ELSE "propagate"

\* Mutant of dispatch: the text case is missing and falls into the hybrid one.
dispatch_text_as_hybrid(t, n) ==
    IF t = "semantic"
    THEN [b \in Branches |-> IF b = t THEN ReadyBranch(n) ELSE IdleBranch]
    ELSE [b \in Branches |-> ReadyBranch(n * 2)]

\* "Perform the search based on type": the branch coroutines created for
\* search_type t and match_count n, each with the count it is called with.
dispatch(t, n) ==
    IF t = "hybrid"
    THEN [b \in Branches |-> ReadyBranch(n * 2)]
    ELSE [b \in Branches |-> IF b = t THEN ReadyBranch(n) ELSE IdleBranch]

\* Validation, the clamp, and the call of the selected search up to its
\* first await (for hybrid: fetch_count and the two tasks of gather).
KBStart ==
    /\ pc = "start"
    /\ LET verdict == validate(query, requested.type, match_count, search_type) IN
       IF verdict # "ok"
       THEN /\ response' = [kind |-> verdict, parts |-> <<>>]
            /\ pc' = "done"
            /\ UNCHANGED <<match_count, hpc, fetch_count, branch>>
       ELSE /\ match_count' = clamp(match_count)
            /\ pc' = "searching"
            /\ response' = response
            /\ branch' = dispatch(search_type, match_count')
            /\ IF search_type = "hybrid"
               THEN /\ fetch_count' = match_count' * 2
                    /\ hpc' = "gathering"
               ELSE UNCHANGED <<hpc, fetch_count>>
    /\ UNCHANGED <<query, search_type, results, semantic_list, text_list,
                   merged_results, final_results, mongodb_service,
                   embedding_service, hybrid_result, search_results_list, constructed, handle, requested, calls,
                   cancel_requested>>

\* The awaited search is over: results are formatted and returned, or the
\* exception of a single branch is handled.
KBFinish ==
    /\ pc = "searching"
    /\ IF search_type = "hybrid"
       THEN hpc \in {"returned", "cancelled"}
       ELSE Terminal(branch[search_type])
    /\ LET raised == IF search_type = "hybrid" THEN hpc = "cancelled"
                     ELSE branch[search_type].pc = "raised"
           e == IF search_type = "hybrid" THEN "CancelledError"
                ELSE branch[search_type].exc
           found == IF search_type = "hybrid" THEN hybrid_result
                    ELSE branch[search_type].out
       IN
       IF raised
       THEN /\ results' = results
            /\ IF search_knowledge_base_except(e) = "propagate"
               THEN /\ pc' = "cancelled"
                    /\ response' = response
               ELSE /\ pc' = "done"
                    /\ response' = [kind |-> search_knowledge_base_except(e),
                                    parts |-> <<>>]
       ELSE /\ results' = found
            /\ response' = format_results(found)
            /\ pc' = "done"
    /\ UNCHANGED <<query, match_count, search_type, hpc, fetch_count, branch,
                   semantic_list, text_list, merged_results, final_results,
                   mongodb_service, embedding_service, hybrid_result,
                   search_results_list, constructed, handle, requested, calls, cancel_requested>>

\* ---------------------------------------------------------- specification
Queries == {<<>>, <<" ", " ">>, <<"g", "e", "m">>}
MatchCounts == (0..MaxMatchCount) \cup {max_match_count + 1}
RequestedTypes == SearchTypes \cup {"fuzzy"}
\* The type of the match_count argument: an int, or a float of the same value.
MatchCountTypes == {"int", "float"}

Init ==
    /\ query \in Queries
    /\ match_count \in MatchCounts
    /\ search_type \in RequestedTypes
    /\ pc = "start"
    /\ results = <<>>
    /\ response = [kind |-> "none", parts |-> <<>>]
    /\ hpc = "idle"
    /\ fetch_count = 0
    /\ branch = [b \in Branches |-> IdleBranch]
    /\ semantic_list = <<>>
    /\ text_list = <<>>
    /\ merged_results = <<>>
    /\ final_results = <<>>
    /\ mongodb_service \in {"None", "MongoDBService"}
    /\ embedding_service \in {"None", "EmbeddingService"}
    /\ hybrid_result = <<>>
    /\ search_results_list = <<>>
    /\ requested \in [value : {match_count}, type : MatchCountTypes]
    /\ calls = NoCalls
    /\ cancel_requested = FALSE
    /\ constructed = IF mongodb_service = "None" THEN 0 ELSE 1
    /\ handle = <<>>

Next ==
    \/ KBStart
    \/ SemanticStart
    \/ SemanticEmbedded
    \/ SemanticAggregated
    \/ SemanticDrained
    \/ TextStart
    \/ TextAggregated
    \/ TextDrained
    \/ HybridCollect
    \/ HybridReturnEmpty
    \/ HybridFuse
    \/ HybridTruncate
    \/ HybridReturn
    \/ Cancel
    \/ HybridCancelled
    \/ KBFinish

Spec == Init /\ [][Next]_vars

\* ---------------------------------- _reciprocal_rank_fusion called directly
\* A branch list as a caller of the function may pass it: any chunk ids,
\* repeats included; list number n holds revision n of the chunks.
AnyList(ids, n) == ToSearchResults([j \in 1..Len(ids) |-> ProjectedDoc(ids[j], n, j)])

InitRRF ==
    /\ search_results_list \in
          {<<AnyList(a, 1), AnyList(b, 2)>> :
              a \in SeqsUpTo(Chunks, MaxHits), b \in SeqsUpTo(Chunks, MaxHits)}
    /\ pc = "fusion"
    /\ query = <<>>
    /\ match_count = 0
    /\ search_type = "none"
    /\ results = <<>>
    /\ response = [kind |-> "none", parts |-> <<>>]
    /\ hpc = "idle"
    /\ fetch_count = 0
    /\ branch = [b \in Branches |-> IdleBranch]
    /\ semantic_list = <<>>
    /\ text_list = <<>>
    /\ merged_results = <<>>
    /\ final_results = <<>>
    /\ mongodb_service = "None"
    /\ embedding_service = "None"
    /\ hybrid_result = <<>>
    /\ requested = [value |-> 0, type |-> "int"]
    /\ calls = NoCalls
    /\ cancel_requested = FALSE
    /\ constructed = 0
    /\ handle = <<>>

\* merged_results = _reciprocal_rank_fusion(search_results_list)  (k = 60)
RRFCall ==
    /\ pc = "fusion"
    /\ merged_results' = reciprocal_rank_fusion(search_results_list, RRF_K)
    /\ pc' = "fused"
    /\ UNCHANGED <<query, match_count, search_type, results, response, hpc,
                   fetch_count, branch, semantic_list, text_list, final_results,
                   mongodb_service, embedding_service, hybrid_result,
                   search_results_list, constructed, handle, requested, calls,
                   cancel_requested>>

NextRRF == RRFCall

SpecRRF == InitRRF /\ [][NextRRF]_vars

\* ------------------------------------------- get_mongodb called directly
\* The branches of two concurrent requests: the callers of get_mongodb.
Callers == {"request1.semantic", "request1.text", "request2.semantic", "request2.text"}

InitSingleton ==
    /\ mongodb_service = "None"
    /\ constructed = 0
    /\ handle = [c \in Callers |-> "none"]
    /\ calls = NoCalls
    /\ pc = "singleton"
    /\ query = <<>>
    /\ match_count = 0
    /\ search_type = "none"
    /\ results = <<>>
    /\ response = [kind |-> "none", parts |-> <<>>]
    /\ hpc = "idle"
    /\ fetch_count = 0
    /\ branch = [b \in Branches |-> IdleBranch]
    /\ semantic_list = <<>>
    /\ text_list = <<>>
    /\ merged_results = <<>>
    /\ final_results = <<>>
    /\ embedding_service = "None"
    /\ hybrid_result = <<>>
    /\ search_results_list = <<>>
    /\ requested = [value |-> 0, type |-> "int"]
    /\ cancel_requested = FALSE

\* Caller c runs get_mongodb(): it has no await, so it runs from its test
\* of the global to its return (or raise) without another caller in between.
GetMongoDB(c) ==
    /\ pc = "singleton"
    /\ calls.get_mongodb < MaxCalls
    /\ \E m \in get_mongodb(mongodb_service) :
        /\ mongodb_service' = m.service
        /\ constructed' = m.constructed
        /\ handle' = [handle EXCEPT ![c] = IF m.exc = "none" THEN m.service ELSE "raised"]
    /\ calls' = [calls EXCEPT !.get_mongodb = @ + 1]
    /\ UNCHANGED <<query, match_count, search_type, pc, results, response, hpc,
                   fetch_count, branch, semantic_list, text_list, merged_results,
                   final_results, embedding_service, hybrid_result,
                   search_results_list, requested, cancel_requested>>

NextSingleton == \E c \in Callers : GetMongoDB(c)

SpecSingleton == InitSingleton /\ [][NextSingleton]_vars

\* ------------------------------------------------------------ properties
\* Helpers of the properties below.
IdsOf(list) == [i \in 1..Len(list) |-> list[i].chunk_id]
IdSet(list) == {list[i].chunk_id : i \in 1..Len(list)}
Occurs(list, c) == c \in IdSet(list)
\* Zero-based rank of c in a list that holds it once.
RankIn(list, c) == (CHOOSE i \in 1..Len(list) : list[i].chunk_id = c) - 1
\* Position of c in a fused list.
PlaceIn(list, c) == CHOOSE i \in 1..Len(list) : list[i].chunk_id = c
\* 1/(60 + rank of c) when the list holds c, else 0.
Share(list, c) == IF Occurs(list, c) THEN Frac(1, RRF_K + RankIn(list, c)) ELSE 0
\* A branch that failed: an exception was raised inside it.
Failed(b) == branch[b].exc # "none"
\* A branch that returned the list its index query yielded.
Succeeded(b) == branch[b].pc = "returned" /\ branch[b].exc = "none"
Other(b) == IF b = "semantic" THEN "text" ELSE "semantic"
\* The hybrid search went through fusion: merged_results is set.
Fused == hpc \in {"fused", "truncated"} \/ (hpc = "returned" /\ ~both_failed(semantic_list, text_list))

\* C1: when one branch of a hybrid search fails and the other returns B,
\* the search does not raise and returns the first min(Len(B), match_count)
\* elements of B, in B's order, the element at zero-based position j
\* carrying the score 1/(60+j) -- whichever branch is the failing one.
C1_DegradedMode ==
    \A b \in Branches :
        (hpc \notin {"idle", "gathering"} /\ Failed(b) /\ Succeeded(Other(b))) =>
            LET B == branch[Other(b)].out IN
            /\ hpc # "raised"
            /\ hpc = "returned" =>
                /\ Len(hybrid_result) = Min(Len(B), match_count)
                /\ \A j \in 1..Len(hybrid_result) :
                      hybrid_result[j] = [B[j] EXCEPT !.similarity = Frac(1, RRF_K + j - 1)]

\* C1's case: the semantic branch failed, the text branch returned more than
\* match_count results, and the hybrid search has returned.
C1_Witness ==
    /\ hpc = "returned"
    /\ Failed("semantic") /\ Succeeded("text")
    /\ Len(branch["text"].out) > match_count
    /\ Len(hybrid_result) = match_count

\* C2: an exception of any kind but cancellation, raised by the embedding
\* call, by get_mongodb or by the index query, makes the branch return the
\* empty list; it is never propagated to the branch's caller.
C2_BranchAbsorbsFailure ==
    \A b \in Branches :
        (Failed(b) /\ IsException(branch[b].exc)) =>
            /\ branch[b].pc = "returned"
            /\ branch[b].out = <<>>
            /\ pc = "done" => response.kind \notin {"unavailable", "failed", "propagate"}

\* C2's case: the base EmbeddingServiceError, which only the last except
\* clause of _semantic_search catches, and a failed index query of the
\* text branch, both absorbed.
C2_Witness ==
    /\ branch["semantic"].exc = "EmbeddingServiceError"
    /\ branch["semantic"].pc = "returned"
    /\ branch["text"].exc \in IndexErrors
    /\ branch["text"].pc = "returned"

\* C3: when both branches of a hybrid search end with nothing (by failure
\* or by matching nothing, in any combination), the search does not raise
\* and returns the empty list.
C3_TotalFailure ==
    (hpc \notin {"idle", "gathering"} /\ \A b \in Branches : branch[b].out = <<>>) =>
        /\ hpc # "raised"
        /\ hpc = "returned" => hybrid_result = <<>>

\* C3's case: one branch failed, the other matched nothing, and the hybrid
\* search has returned.
C3_Witness ==
    /\ hpc = "returned"
    /\ Failed("semantic")
    /\ Succeeded("text") /\ branch["text"].out = <<>>
    /\ hybrid_result = <<>>

\* The two lists of a direct call of _reciprocal_rank_fusion.
ListA == search_results_list[1]
ListB == search_results_list[2]
NoRepeatLists == NoRepeat(IdsOf(ListA)) /\ NoRepeat(IdsOf(ListB))
\* Position of c's first appearance when the lists are scanned in order.
FirstSeen(c) ==
    LET scan == IdsOf(ListA) \o IdsOf(ListB)
    IN CHOOSE i \in 1..Len(scan) : scan[i] = c /\ \A j \in 1..(i - 1) : scan[j] # c

\* C4: for lists without a chunk_id repeated inside one list, the score
\* emitted for a chunk is the exact sum, over the lists that hold it, of
\* 1/(60+j), j its zero-based position there; every chunk of the lists is
\* emitted; a chunk at rank 0 of both lists gets 2/60.
C4_FusedScore ==
    (pc = "fused" /\ NoRepeatLists) =>
        /\ \A c \in IdSet(ListA) \cup IdSet(ListB) : Occurs(merged_results, c)
        /\ \A i \in 1..Len(merged_results) :
              merged_results[i].similarity =
                  Share(ListA, merged_results[i].chunk_id)
                  + Share(ListB, merged_results[i].chunk_id)
        /\ \A i \in 1..Len(merged_results) :
              LET c == merged_results[i].chunk_id IN
              (Occurs(ListA, c) /\ Occurs(ListB, c) /\ RankIn(ListA, c) = 0
                  /\ RankIn(ListB, c) = 0) => merged_results[i].similarity = Frac(2, 60)

\* C4's case: fusion has run on lists where one chunk heads both lists and
\* another is at rank 1 of the first and rank 2 of the second.
C4_Witness ==
    /\ pc = "fused" /\ NoRepeatLists
    /\ \E c, d \in IdSet(merged_results) :
        /\ Occurs(ListA, c) /\ Occurs(ListB, c)
        /\ RankIn(ListA, c) = 0 /\ RankIn(ListB, c) = 0
        /\ Occurs(ListA, d) /\ Occurs(ListB, d)
        /\ RankIn(ListA, d) = 1 /\ RankIn(ListB, d) = 2
        /\ merged_results[PlaceIn(merged_results, d)].similarity = Frac(1, 61) + Frac(1, 62)

\* The scenario of C5: vector branch [A, B, C], text branch [B, D],
\* match_count = 4, and the hybrid search has returned.
C5_Scenario ==
    /\ hpc = "returned"
    /\ IdsOf(semantic_list) = <<"A", "B", "C">>
    /\ IdsOf(text_list) = <<"B", "D">>
    /\ match_count = 4
ScoresOf(list) == [i \in 1..Len(list) |-> list[i].similarity]

\* C5 as stated: the result is B, A, D, C with the scores B = 2/60,
\* A = 1/60, D = 1/61, C = 1/62.
C5_AsStated ==
    C5_Scenario =>
        /\ IdsOf(hybrid_result) = <<"B", "A", "D", "C">>
        /\ ScoresOf(hybrid_result) = <<Frac(2, 60), Frac(1, 60), Frac(1, 61), Frac(1, 62)>>

\* C5, amended: the result is B, A, D, C with the scores B = 1/61 + 1/60
\* (rank 1 of the vector branch, rank 0 of the text branch), A = 1/60,
\* D = 1/61, C = 1/62.
C5_Amended ==
    C5_Scenario =>
        /\ IdsOf(hybrid_result) = <<"B", "A", "D", "C">>
        /\ ScoresOf(hybrid_result) =
              <<Frac(1, 61) + Frac(1, 60), Frac(1, 60), Frac(1, 61), Frac(1, 62)>>

\* C5's case: the scenario, with all four chunks returned.
C5_Witness == C5_Scenario /\ Len(hybrid_result) = 4

\* C6: in the fused list a chunk c of both branches, at rank j in one of
\* them, is placed before every chunk d of only one branch that is at rank
\* j there; and c's score exceeds each of its two contributions.
C6_DuplicateBoost ==
    Fused =>
        \A c \in IdSet(semantic_list) \cap IdSet(text_list) :
            /\ merged_results[PlaceIn(merged_results, c)].similarity > Share(semantic_list, c)
            /\ merged_results[PlaceIn(merged_results, c)].similarity > Share(text_list, c)
            /\ \A d \in (IdSet(semantic_list) \cup IdSet(text_list))
                            \ (IdSet(semantic_list) \cap IdSet(text_list)) :
                  LET own == IF Occurs(semantic_list, d) THEN semantic_list ELSE text_list
                  IN (RankIn(own, d) \in {RankIn(semantic_list, c), RankIn(text_list, c)})
                        => PlaceIn(merged_results, c) < PlaceIn(merged_results, d)

\* C6's case: fusion has run where chunk c is at rank 1 of the vector branch
\* and in the text branch too, and d, of the text branch only, is at rank 1.
C6_Witness ==
    /\ Fused
    /\ \E c \in IdSet(semantic_list) \cap IdSet(text_list) :
       \E d \in IdSet(text_list) \ IdSet(semantic_list) :
          /\ RankIn(semantic_list, c) = 1
          /\ RankIn(text_list, d) = 1
          /\ PlaceIn(merged_results, c) < PlaceIn(merged_results, d)

\* C7: for two lists of lengths m and n with pairwise different chunk_ids
\* (none repeated, none shared), the fused list has exactly m + n entries.
C7_DisjointCount ==
    (pc = "fused" /\ NoRepeatLists /\ IdSet(ListA) \cap IdSet(ListB) = {}) =>
        Len(merged_results) = Len(ListA) + Len(ListB)

\* C7's case: fusion has run on disjoint lists of 2 and 2 chunks, two of
\* them chunks of the same document.
C7_Witness ==
    /\ pc = "fused" /\ NoRepeatLists
    /\ IdSet(ListA) \cap IdSet(ListB) = {}
    /\ Len(ListA) = 2 /\ Len(ListB) = 2
    /\ Len(merged_results) = 4

\* C8: the fused list is ordered by non-increasing score, and two chunks of
\* equal score are in the order of their first appearance in the scan of
\* the lists (the first list top to bottom, then the second).
C8_Order ==
    pc = "fused" =>
        \A i, j \in 1..Len(merged_results) :
            i < j =>
                /\ merged_results[i].similarity >= merged_results[j].similarity
                /\ merged_results[i].similarity = merged_results[j].similarity
                      => FirstSeen(merged_results[i].chunk_id)
                            < FirstSeen(merged_results[j].chunk_id)

\* C8's case: fusion has run and two chunks tie, below a chunk of higher
\* score that appeared after one of them.
C8_Witness ==
    /\ pc = "fused"
    /\ Len(merged_results) >= 3
    /\ merged_results[1].similarity > merged_results[2].similarity
    /\ merged_results[2].similarity = merged_results[3].similarity
    /\ FirstSeen(merged_results[1].chunk_id) > FirstSeen(merged_results[2].chunk_id)

\* C9: a chunk returned by both branches is emitted, in the fused list and
\* in the result, with the document_id, content, metadata, title and source
\* of the vector branch's copy.
C9_VectorCopyWins ==
    Fused =>
        \A list \in {merged_results} \cup (IF hpc = "returned" THEN {hybrid_result} ELSE {}) :
        \A i \in 1..Len(list) :
            LET c == list[i].chunk_id IN
            (Occurs(semantic_list, c) /\ Occurs(text_list, c)) =>
                LET v == semantic_list[RankIn(semantic_list, c) + 1] IN
                /\ list[i].document_id = v.document_id
                /\ list[i].content = v.content
                /\ list[i].metadata = v.metadata
                /\ list[i].document_title = v.document_title
                /\ list[i].document_source = v.document_source

\* C9's case: the hybrid search returned a chunk whose two copies differ in
\* content, metadata, title and source.
C9_Witness ==
    /\ hpc = "returned"
    /\ \E i \in 1..Len(hybrid_result) :
        LET c == hybrid_result[i].chunk_id IN
        /\ Occurs(semantic_list, c) /\ Occurs(text_list, c)
        /\ LET v == semantic_list[RankIn(semantic_list, c) + 1]
               t == text_list[RankIn(text_list, c) + 1]
           IN /\ v.content # t.content /\ v.metadata # t.metadata
              /\ v.document_title # t.document_title
              /\ v.document_source # t.document_source
              /\ hybrid_result[i].content = v.content

\* C10: a fused list longer than match_count is returned cut to its first
\* match_count entries, none of them scored below a dropped one; a fused
\* list that is not longer is returned whole.
C10_Truncation ==
    (hpc = "returned" /\ ~both_failed(semantic_list, text_list)) =>
        IF Len(merged_results) > match_count
        THEN /\ Len(hybrid_result) = match_count
             /\ hybrid_result = SubSeq(merged_results, 1, match_count)
             /\ \A i \in 1..match_count :
                \A j \in (match_count + 1)..Len(merged_results) :
                    merged_results[i].similarity >= merged_results[j].similarity
        ELSE hybrid_result = merged_results

\* C10's case: the hybrid search returned 2 of 4 fused entries.
C10_Witness ==
    /\ hpc = "returned"
    /\ match_count = 2
    /\ Len(merged_results) = 4
    /\ Len(hybrid_result) = 2

\* The call returned a transcript of its results.
Answered == pc = "done" /\ response.kind = "transcript"

\* C11: for every search_type and every accepted match_count, the number of
\* results search_knowledge_base formats and returns is at most the
\* effective (clamped) match_count, whatever the index backends yield.
C11_AsStated ==
    Answered =>
        /\ Len(results) <= match_count
        /\ response.parts[1].number <= match_count

\* The responses that report a rejected argument.
ValidationKinds == {"empty_query", "bad_match_count", "bad_search_type"}
\* The three ways an argument of the call can be invalid.
BlankQuery == \A i \in 1..Len(query) : query[i] \in Whitespace
NotPositiveInt == requested.type # "int" \/ requested.value <= 0
UnknownType == search_type \notin {"hybrid", "semantic", "text"}
\* Nothing behind the validation has been touched.
NothingRun ==
    /\ calls = NoCalls
    /\ \A b \in Branches : branch[b] = IdleBranch
    /\ hpc = "idle"

\* C12: a call with a blank query, a match_count that is not a positive
\* integer, or an unknown search_type returns a validation message, and
\* neither branch is started: no embedding call, no get_mongodb, no index
\* query.
C12_ValidationFailsFast ==
    (BlankQuery \/ NotPositiveInt \/ UnknownType) =>
        /\ NothingRun
        /\ pc \in {"start", "done"}
        /\ pc = "done" =>
            /\ response.kind \in ValidationKinds
            /\ results = <<>>

\* C12's case: a whitespace-only query with otherwise valid arguments was
\* answered with the empty-query message.
C12_Witness ==
    /\ pc = "done"
    /\ query = <<" ", " ">>
    /\ ~NotPositiveInt /\ ~UnknownType
    /\ response.kind = "empty_query"
    /\ NothingRun

\* A request whose only irregularity is a match_count above the maximum.
OverMaximum ==
    /\ requested.type = "int"
    /\ requested.value > max_match_count
    /\ ~BlankQuery /\ ~UnknownType

\* C13 as stated: a call whose match_count exceeds settings.max_match_count
\* is a validation violation; it is answered with a validation message and
\* no branch is run.
C13_AsStated ==
    (requested.type = "int" /\ requested.value > max_match_count) =>
        /\ NothingRun
        /\ pc = "done" => response.kind \in ValidationKinds

\* C13, amended: a call whose match_count exceeds settings.max_match_count
\* (its other arguments valid) is accepted; match_count is clamped to the
\* maximum and the selected search runs with the clamped count (in hybrid
\* mode each branch with twice the clamped count).
C13_Amended ==
    (OverMaximum /\ pc # "start") =>
        /\ match_count = max_match_count
        /\ response.kind \notin ValidationKinds
        /\ IF search_type = "hybrid"
           THEN /\ fetch_count = 2 * max_match_count
                /\ \A b \in Branches : branch[b].match_count = fetch_count
           ELSE branch[search_type].match_count = max_match_count
        /\ pc = "done" => response.kind \in {"transcript", "no_results"}

\* C13's case: match_count = 51 in semantic mode; the vector branch ran and
\* its results were returned as a transcript.
C13_Witness ==
    /\ OverMaximum
    /\ search_type = "semantic"
    /\ calls.semantic = 1
    /\ Answered

\* The request passed validation.
Accepted == pc # "start" /\ ~(BlankQuery \/ NotPositiveInt \/ UnknownType)

\* C14: for an accepted request, semantic mode enters only the vector
\* branch, once, and never the text branch; text mode enters only the text
\* branch, once, and never the vector branch or the embedding service;
\* hybrid mode enters each of the two branches once.
C14_Dispatch ==
    Accepted =>
        /\ calls.semantic <= 1 /\ calls.text <= 1
        /\ search_type = "semantic" =>
            /\ calls.text = 0 /\ branch["text"] = IdleBranch
            /\ pc = "done" => calls.semantic = 1
        /\ search_type = "text" =>
            /\ calls.semantic = 0 /\ branch["semantic"] = IdleBranch
            /\ calls.get_embedding_service = 0 /\ calls.generate_embedding = 0
            /\ pc = "done" => calls.text = 1
        /\ (search_type = "hybrid" /\ pc = "done") =>
            (calls.semantic = 1 /\ calls.text = 1)

\* C14's case: a text search ran to its transcript while the embedding
\* service was never constructed.
C14_Witness ==
    /\ Accepted
    /\ search_type = "text"
    /\ Answered
    /\ calls.text = 1 /\ calls.aggregate = 1
    /\ embedding_service = "None"

\* C15: in every interleaving of the two branches of a hybrid search,
\* fusion starts only after both branches are terminal: while a branch is
\* in flight nothing has been collected or fused, and what is fused is
\* what the two branches ended with.
C15_FusionAfterBoth ==
    /\ (\E b \in Branches : InFlight(branch[b])) =>
            /\ hpc \in {"idle", "gathering"}
            /\ semantic_list = <<>> /\ text_list = <<>>
            /\ merged_results = <<>>
    /\ hpc \in {"collected", "fused", "truncated"} =>
            /\ \A b \in Branches : Terminal(branch[b])
            /\ semantic_list = branch["semantic"].out
            /\ text_list = branch["text"].out

\* C15's case: both branches returned results and fusion ran over them.
C15_Witness ==
    /\ hpc = "fused"
    /\ Succeeded("semantic") /\ Succeeded("text")
    /\ Len(branch["semantic"].out) >= 2 /\ Len(branch["text"].out) >= 2
    /\ merged_results # <<>>

\* C16: when a hybrid search is cancelled while gather is awaited, every
\* branch still in flight gets CancelledError and ends raising it (no
\* handler of the branch turns it into an empty list), no branch is in
\* flight afterwards, branches that were done keep their outcome, and the
\* search neither collects, fuses nor returns: the cancellation leaves
\* _hybrid_search and search_knowledge_base as CancelledError.
C16_CancellationPropagates ==
    /\ [](  (search_type = "hybrid" /\ cancel_requested) =>
              /\ \A b \in Branches : ~InFlight(branch[b])
              /\ \A b \in Branches :
                    branch[b].exc = "CancelledError" =>
                        (branch[b].pc = "raised" /\ branch[b].out = <<>>)
              /\ hpc \in {"gathering", "cancelled"}
              /\ semantic_list = <<>> /\ text_list = <<>>
              /\ merged_results = <<>> /\ hybrid_result = <<>>
              /\ pc \in {"searching", "cancelled"}
              /\ response.kind = "none"  )
    /\ [][ (search_type = "hybrid" /\ ~cancel_requested /\ cancel_requested') =>
              \A b \in Branches :
                 IF InFlight(branch[b])
                 THEN branch'[b].pc = "raised" /\ branch'[b].exc = "CancelledError"
                 ELSE branch'[b] = branch[b] ]_vars

\* C16's case: the search was cancelled while the vector branch was
\* suspended at the embedding call and the text branch at its aggregate
\* call; both ended cancelled and the cancellation left the tool.
C16_Witness ==
    /\ search_type = "hybrid"
    /\ cancel_requested
    /\ pc = "cancelled" /\ hpc = "cancelled"
    /\ \A b \in Branches : branch[b].pc = "raised" /\ branch[b].exc = "CancelledError"
    /\ calls.generate_embedding = 1 /\ calls.aggregate = 1

\* C17: a call that passed validation returns, whatever fails in the
\* branches (constructing a service, the embedding call, the index query,
\* reading the cursor): it ends with the transcript or the no-results
\* indication, never with "temporarily unavailable" or "failed
\* unexpectedly", and it raises only when it was cancelled.
C17_NoErrorOutcome ==
    Accepted =>
        /\ response.kind \notin {"unavailable", "failed"}
        /\ pc = "done" => response.kind \in {"transcript", "no_results"}
        /\ ~cancel_requested => pc \in {"searching", "done"}
        /\ \A b \in Branches : (~cancel_requested /\ branch[b].pc # "idle") =>
                                   branch[b].pc # "raised"

\* C17's case: in text mode the index query failed with an error that only
\* the last except clause of _text_search catches; the call returned the
\* no-results indication.
C17_Witness ==
    /\ Accepted
    /\ search_type = "text"
    /\ branch["text"].exc = "Exception"
    /\ pc = "done"
    /\ response.kind = "no_results"

\* What the selected search handed to search_knowledge_base.
Found == IF search_type = "hybrid" THEN hybrid_result ELSE branch[search_type].out
\* The result blocks of a response: its "--- Document i ---" lines.
Blocks == {i \in 1..Len(response.parts) : response.parts[i].line = "document"}

\* C18: an accepted call that returns gives the no-results indication
\* exactly when the selected search's result sequence is empty (in hybrid
\* mode: exactly when both branches ended with nothing), and otherwise a
\* transcript with one block per result, at least one.
C18_NoResultsIffEmpty ==
    (Accepted /\ pc = "done") =>
        /\ response.kind = "no_results" <=> Found = <<>>
        /\ response.kind = "transcript" <=> Found # <<>>
        /\ response.kind = "transcript" =>
            /\ Cardinality(Blocks) = Len(Found)
            /\ Cardinality(Blocks) >= 1
            /\ response.parts[1].number = Len(Found)
        /\ search_type = "hybrid" =>
            (Found = <<>> <=> \A b \in Branches : branch[b].out = <<>>)

\* C18's case: a hybrid search whose vector branch failed and whose text
\* branch matched nothing answered with the no-results indication.
C18_Witness ==
    /\ Accepted /\ pc = "done"
    /\ search_type = "hybrid"
    /\ Failed("semantic")
    /\ Succeeded("text") /\ branch["text"].out = <<>>
    /\ response.kind = "no_results"

\* C20: in a hybrid search each of the two branches runs with the one
\* fetch_count = match_count * 2 and contributes at most match_count * 2
\* candidates to fusion; the text branch hands over no more than the
\* vector branch may.
C20_AsStated ==
    (Accepted /\ search_type = "hybrid") =>
        /\ fetch_count = match_count * 2
        /\ \A b \in Branches : branch[b].match_count = fetch_count
        /\ \A b \in Branches : Len(branch[b].out) <= match_count * 2
        /\ Len(semantic_list) <= match_count * 2
        /\ Len(text_list) <= match_count * 2

\* C21 as stated: a dispatched hybrid search reaches Returned only from
\* Truncated, and Truncated only from Fused -- also when both branches
\* contributed empty sequences.
C21_AsStated ==
    [][ /\ (hpc' = "returned" /\ hpc # "returned") => hpc = "truncated"
        /\ (hpc' = "truncated" /\ hpc # "truncated") => hpc = "fused" ]_vars

\* C21, amended: a dispatched hybrid search moves Dispatched (gathering),
\* both branches terminal (collected), Fused, Truncated, Returned in this
\* order, except that with both branch lists empty it goes from collected
\* straight to Returned with the empty list, neither fusing nor truncating;
\* a cancelled search leaves gathering as cancelled.
C21_Amended ==
    [][ hpc' # hpc =>
          \/ hpc = "idle" /\ hpc' = "gathering"
          \/ /\ hpc = "gathering" /\ hpc' = "collected"
             /\ \A b \in Branches : Terminal(branch[b])
          \/ /\ hpc = "collected" /\ hpc' = "fused"
             /\ ~(semantic_list = <<>> /\ text_list = <<>>)
          \/ hpc = "fused" /\ hpc' = "truncated"
          \/ hpc = "truncated" /\ hpc' = "returned"
          \/ /\ hpc = "collected" /\ hpc' = "returned"
             /\ semantic_list = <<>> /\ text_list = <<>>
             /\ hybrid_result' = <<>>
             /\ merged_results' = <<>> /\ final_results' = <<>>
          \/ hpc = "gathering" /\ hpc' = "cancelled" /\ cancel_requested ]_vars

\* C21's case: both branches matched nothing and the search has returned
\* without a fused or truncated list having been made.
C21_Witness ==
    /\ hpc = "returned"
    /\ Succeeded("semantic") /\ Succeeded("text")
    /\ semantic_list = <<>> /\ text_list = <<>>
    /\ hybrid_result = <<>>

\* Every step but HybridFuse.
OtherSteps ==
    \/ KBStart
    \/ SemanticStart \/ SemanticEmbedded \/ SemanticAggregated \/ SemanticDrained
    \/ TextStart \/ TextAggregated \/ TextDrained
    \/ HybridCollect \/ HybridReturnEmpty \/ HybridTruncate \/ HybridReturn
    \/ Cancel \/ HybridCancelled \/ KBFinish

\* HybridFuse can be taken, and a step that takes it; weak fairness of
\* HybridFuse written with these two.
FuseReady == hpc = "collected" /\ ~both_failed(semantic_list, text_list)
FuseStep == hpc = "collected" /\ hpc' = "fused"
FuseFair == []<>(~FuseReady) \/ []<><<FuseStep>>_vars

\* The event loop runs whatever is ready, and every awaited external call
\* completes or fails: each of the two branches, the orchestrator and the
\* tool keep taking their steps.
FairSpec ==
    /\ Init /\ [][Next]_vars
    /\ WF_vars(SemanticStart \/ SemanticEmbedded \/ SemanticAggregated \/ SemanticDrained)
    /\ WF_vars(TextStart \/ TextAggregated \/ TextDrained)
    /\ WF_vars(KBStart \/ HybridCollect \/ HybridReturnEmpty \/ HybridTruncate
                  \/ HybridReturn \/ HybridCancelled \/ KBFinish)
    /\ FuseFair

\* Nothing more can happen: no step of Next is enabled.
Quiescent == ~FuseReady /\ ~ENABLED OtherSteps

\* C22: if every external call completes or fails and the request is not
\* cancelled, a call of search_knowledge_base eventually returns, and a
\* state in which nothing more can happen is one in which it has returned.
C22_EventuallyReturned ==
    /\ <>(pc = "done" \/ cancel_requested)
    /\ [](Quiescent => (pc = "done" \/ (cancel_requested /\ pc = "cancelled")))

\* C22's case: a hybrid search in which one branch failed returned.
C22_Witness ==
    /\ pc = "done"
    /\ search_type = "hybrid"
    /\ ~cancel_requested
    /\ Failed("semantic") /\ Succeeded("text") /\ branch["text"].out # <<>>

\* C23: whenever the vector branch, called through search_knowledge_base,
\* has sent its query to the vector index, the candidate pool it asked for
\* (numCandidates) is strictly larger than the count it was called with.
C23_AsStated ==
    (Accepted /\ branch["semantic"].pc \in {"aggregating", "draining"}) =>
        vector_search_stage(branch["semantic"].match_count).numCandidates
            > branch["semantic"].match_count

\* C27: over any sequence and interleaving of get_mongodb calls of
\* concurrent branches and requests (each call atomic, as it has no await):
\* at most one MongoDBService is ever constructed and stored; once stored
\* the singleton is never replaced or unset; every call that returns gives
\* the stored instance; a call whose construction fails raises only while
\* the singleton is unset and leaves it unset.
C27_Singleton ==
    /\ [](  /\ constructed <= 1
            /\ mongodb_service \in {"None", MongoInstances[1]}
            /\ (mongodb_service = "None") <=> (constructed = 0)
            /\ \A c \in Callers :
                  handle[c] \notin {"none", "raised"} => handle[c] = mongodb_service )
    /\ [][  /\ mongodb_service # "None" => mongodb_service' = mongodb_service
            /\ \A c \in Callers :
                  (handle'[c] = "raised" /\ handle[c] # "raised") =>
                      (mongodb_service = "None" /\ mongodb_service' = "None")  ]_vars

\* C27's case: one caller's construction failed, a later call constructed
\* the singleton, and two callers of different requests hold that instance.
C27_Witness ==
    /\ pc = "singleton"
    /\ handle["request1.semantic"] = "raised"
    /\ handle["request1.text"] = mongodb_service
    /\ handle["request2.semantic"] = mongodb_service
    /\ mongodb_service = MongoInstances[1]
    /\ constructed = 1

\* C24 as stated: while the two branches of a hybrid search run, no step
\* writes state shared between the branches or with other requests: the
\* module globals of the two services stay as they are.
C24_AsStated ==
    [][ hpc = "gathering" =>
            UNCHANGED <<mongodb_service, embedding_service>> ]_vars

\* C24, amended: while the two branches of a hybrid search run, a branch
\* writes no shared state except the two service singletons, which the
\* first call of get_mongodb / get_embedding_service sets from None to the
\* constructed instance, in the run of a branch up to its first await;
\* once set they are not written again.  The query, the counts and the
\* search type are only read, and a step of one branch leaves the other
\* branch's state alone (but for a cancellation, which ends both).
C24_Amended ==
    [][ hpc = "gathering" =>
          /\ UNCHANGED <<query, match_count, search_type, fetch_count, requested>>
          /\ mongodb_service' # mongodb_service =>
                /\ mongodb_service = "None"
                /\ \E b \in Branches : branch[b].pc = "ready" /\ branch'[b].pc # "ready"
          /\ embedding_service' # embedding_service =>
                /\ embedding_service = "None"
                /\ branch["semantic"].pc = "ready" /\ branch'["semantic"].pc # "ready"
          /\ \A b \in Branches :
                (branch'[b] # branch[b] /\ cancel_requested' = cancel_requested) =>
                    branch'[Other(b)] = branch[Other(b)] ]_vars

\* C24's case: in a hybrid search the vector branch constructed both
\* singletons and the text branch, started after it, got the stored
\* MongoDBService.
C24_Witness ==
    /\ hpc = "gathering"
    /\ calls.get_mongodb = 2
    /\ constructed = 1 /\ mongodb_service = MongoInstances[1]
    /\ embedding_service = "EmbeddingService"
    /\ branch["semantic"].pc = "embedding"
    /\ branch["text"].pc = "aggregating"
    /\ calls.get_embedding_service = 1

\* The sum of 1/(60 + rank) over the places from j on where list holds c.
RECURSIVE SumShares(_, _, _)
SumShares(list, j, c) ==
    IF j > Len(list) THEN 0
    ELSE (IF list[j].chunk_id = c THEN Frac(1, RRF_K + j - 1) ELSE 0)
         + SumShares(list, j + 1, c)
\* Result x with its score replaced by s.
Rescored(x, s) == [x EXCEPT !.similarity = s]

\* C25: _reciprocal_rank_fusion changes only the score: each emitted
\* result is a result of one of the input lists with the same chunk_id,
\* document_id, content, metadata, title and source, carrying the fused
\* score in place of the branch's score; the call leaves the input lists
\* as they were (length, order, every element and its score).
C25_OnlyTheScore ==
    /\ [](  pc = "fused" =>
              \A i \in 1..Len(merged_results) :
                 LET r == merged_results[i]
                     s == SumShares(ListA, 1, r.chunk_id) + SumShares(ListB, 1, r.chunk_id)
                 IN /\ r.similarity = s
                    /\ \E n \in 1..Len(search_results_list) :
                       \E j \in 1..Len(search_results_list[n]) :
                           r = Rescored(search_results_list[n][j], s)  )
    /\ [][ pc' = "fused" => search_results_list' = search_results_list ]_vars

\* C25's case: a chunk with a non-empty source label, held by both lists
\* with scores of their own, was emitted with a fused score that is
\* neither of them.
C25_Witness ==
    /\ pc = "fused"
    /\ \E i \in 1..Len(merged_results) :
       \E j \in 1..Len(ListA) : \E m \in 1..Len(ListB) :
          /\ ListA[j].chunk_id = merged_results[i].chunk_id
          /\ ListB[m].chunk_id = merged_results[i].chunk_id
          /\ merged_results[i].document_source # ""
          /\ merged_results[i].similarity # ListA[j].similarity
          /\ merged_results[i].similarity # ListB[m].similarity

\* The lines of the response after its header, by kind.
IsDocumentLine(p) == p.line = "document"
IsContentLine(p) == p.line = "content"
IsSourceLine(p) == p.line = "source"
Body == Tail(response.parts)
DocumentLines == SelectSeq(Body, IsDocumentLine)
ContentLines == SelectSeq(Body, IsContentLine)
SourceLines == SelectSeq(Body, IsSourceLine)
\* The source lines that belong to block i.
SourceLinesOf(i) == {j \in 1..Len(SourceLines) : SourceLines[j].number = i}

\* C26: the transcript of a non-empty result sequence of length n is a
\* header stating n, followed by n blocks numbered 1..n in the order of the
\* results (in hybrid mode by descending fused score), each opened by its
\* "--- Document i ---" line with the result's title and followed by its
\* content; a block has a source line exactly when its result's source
\* label is non-empty, and no other lines exist.
C26_Transcript ==
    Answered =>
        LET n == Len(results) IN
        /\ n >= 1
        /\ response.parts[1].line = "header" /\ response.parts[1].number = n
        /\ Len(DocumentLines) = n /\ Len(ContentLines) = n
        /\ Len(Body) = Len(DocumentLines) + Len(ContentLines) + Len(SourceLines)
        /\ \A i \in 1..n :
            /\ DocumentLines[i].number = i
            /\ DocumentLines[i].title = results[i].document_title
            /\ ContentLines[i].number = i
            /\ ContentLines[i].text = results[i].content
            /\ Cardinality(SourceLinesOf(i)) = IF results[i].document_source # "" THEN 1 ELSE 0
            /\ \A j \in SourceLinesOf(i) : SourceLines[j].text = results[i].document_source
        /\ \A i \in 1..Len(Body) - 1 :
            \/ Body[i + 1].number = Body[i].number /\ Body[i].line # "source"
                 /\ Body[i + 1].line # "document"
            \/ Body[i + 1].number = Body[i].number + 1 /\ Body[i + 1].line = "document"
        /\ search_type = "hybrid" =>
            \A i \in 1..n - 1 : results[i].similarity >= results[i + 1].similarity

\* C26's case: a hybrid transcript of three results of which one has no
\* source label.
C26_Witness ==
    /\ Answered
    /\ search_type = "hybrid"
    /\ Len(results) = 3
    /\ Len(SourceLines) = 2
    /\ \E i \in 1..3 : results[i].document_source = ""

\* The branches that search_knowledge_base has invoked.
Invoked == {b \in Branches : branch[b].pc # "idle"}

\* C28: every branch invocation receives a count derived from an effective
\* match_count in 1..max_match_count: a semantic or text invocation runs
\* with that match_count itself, a hybrid invocation with fetch_count, which
\* is twice it and so at most twice the maximum, however large the
\* validated input was.
C28_CountsBounded ==
    \A b \in Invoked :
        /\ match_count \in 1..max_match_count
        /\ IF search_type = "hybrid"
           THEN /\ fetch_count = match_count * 2
                /\ branch[b].match_count = fetch_count
                /\ branch[b].match_count <= 2 * max_match_count
           ELSE /\ branch[b].match_count = match_count
                /\ branch[b].match_count <= max_match_count

\* C28's case: a request above the maximum passed validation and both
\* hybrid branches run with twice the maximum.
C28_Witness ==
    /\ OverMaximum
    /\ search_type = "hybrid"
    /\ Invoked = Branches
    /\ \A b \in Branches : branch[b].match_count = 2 * max_match_count
    /\ requested.value > max_match_count

\* The chunk_ids held by a list of results.
ChunkIdsOf(list) == {list[j].chunk_id : j \in 1..Len(list)}
\* The chunk_ids of all the lists handed to _reciprocal_rank_fusion.
InputChunkIds ==
    UNION {ChunkIdsOf(search_results_list[n]) : n \in 1..Len(search_results_list)}

\* C29: whatever lists _reciprocal_rank_fusion is given (overlapping, or
\* one list holding the same chunk_id at several ranks), its output holds
\* every chunk_id of the inputs exactly once and no other, so its length is
\* the number of distinct chunk_ids in the union of the lists.
C29_EachChunkOnce ==
    pc = "fused" =>
        /\ ChunkIdsOf(merged_results) = InputChunkIds
        /\ \A c \in InputChunkIds :
              Cardinality({i \in 1..Len(merged_results) : merged_results[i].chunk_id = c}) = 1
        /\ Len(merged_results) = Cardinality(InputChunkIds)

\* C29's case: one list holds a chunk_id twice, the other list holds it
\* too, a second chunk_id is in one list only, and the output has two
\* results.
C29_Witness ==
    /\ pc = "fused"
    /\ Len(merged_results) = 2
    /\ \E j, m \in 1..Len(ListA) :
          /\ j # m
          /\ ListA[j].chunk_id = ListA[m].chunk_id
          /\ ListA[j].chunk_id \in ChunkIdsOf(ListB)
    /\ \E c \in InputChunkIds : c \notin ChunkIdsOf(ListA) \cap ChunkIdsOf(ListB)

\* The branches whose contribution to the hybrid search is non-empty.
Contributors == {b \in Branches : branch[b].out # <<>>}

\* C30: with match_count >= 1, _hybrid_search returns a non-empty list
\* exactly when at least one branch contributed a non-empty list; when the
\* other branch failed or was empty, the result is still non-empty and made
\* of the contributing branch's chunks, its best-ranked one first.
C30_NonEmptyIffContributed ==
    hpc = "returned" =>
        /\ match_count >= 1
        /\ (hybrid_result # <<>>) <=> (Contributors # {})
        /\ \A b \in Contributors :
              Other(b) \notin Contributors =>
                  /\ hybrid_result # <<>>
                  /\ hybrid_result[1].chunk_id = branch[b].out[1].chunk_id
                  /\ ChunkIdsOf(hybrid_result) \subseteq ChunkIdsOf(branch[b].out)

\* C30's case: the text branch failed, the semantic branch contributed
\* results, and the hybrid search returned a non-empty list.
C30_Witness ==
    /\ hpc = "returned"
    /\ Failed("text")
    /\ Contributors = {"semantic"}
    /\ Len(branch["semantic"].out) >= 2
    /\ hybrid_result # <<>>

====
